---- MODULE Spec2Model ----
(***************************************************************************)
(* Per-session conversation engine of the scam honeypot API.               *)
(*                                                                         *)
(* The two message handlers of app/api/routes.py (/api/honeypot and        *)
(* /api/v1/message), the health and cleanup routes, the reply generator    *)
(* and the intelligence extractor are translated from the source.  The     *)
(* Session / SessionManager, the scam detector and the callback service    *)
(* are imported by routes.py but their modules are not part of the source  *)
(* tree at hand; they are modelled from the written specification.         *)
(*                                                                         *)
(* Every handler is an `async def` that contains no `await`: once the      *)
(* event loop starts it, it runs to its return (or to an exception)        *)
(* before any other coroutine of the loop runs.  A handler is modelled as  *)
(* a chain of steps of one task; LoopFree is the event loop's rule that a  *)
(* new coroutine is started only when no handler is in the middle.         *)
(***************************************************************************)
EXTENDS Integers, Sequences, FiniteSets

(***************************************************************************)
(* Bounds of the model and configured parameters.                          *)
(***************************************************************************)
\* settings.max_messages_per_session (MAX_MESSAGES_PER_SESSION), scaled down
max_messages_per_session == 2
\* settings.session_timeout_seconds (SESSION_TIMEOUT_SECONDS), in clock ticks
session_timeout_seconds == 0
\* the clock stops ticking here
MaxTime == 1
\* Session objects ever created
MaxSessions == 3
\* message requests accepted over one run
MaxRequests == 3
\* the ceiling, and the message requests accepted, of a run that follows
\* one session over several turns (SpecTurns)
MaxTurnMessages == 6
MaxTurnRequests == 5
\* detector failures over one run (SpecFaults)
MaxFailures == 1
\* the length of the longest template list (FINANCIAL_RESPONSES): the
\* indexes random.choice can draw
MaxTemplate == 5

SessionIds == {"s1", "s2"}
Tasks == {1, 2}
NoSession == 0

(***************************************************************************)
(* State.                                                                  *)
(***************************************************************************)
VARIABLES
    now,        \* the clock read by the sessions
    heap,       \* every Session object ever constructed, by object id
    store,      \* session_manager.sessions: session id -> object id
    tasks,      \* the frame of each request task of the event loop
    callbacks,  \* the send_callback tasks handed to asyncio.create_task
    requests,   \* message requests the run still accepts
    failures,   \* collaborator failures so far
    probe,      \* a direct call of reply_generator / intelligence_extractor
    settings    \* app.core.config.settings, as configured for the run

vars == <<now, heap, store, tasks, callbacks, requests, failures, probe, settings>>


(***************************************************************************)
(* Message texts.                                                          *)
(***************************************************************************)
T_UPI == "pay to merchant@ybl now or a/c 123456789012, call 9876543210, see http://x.co/a"
T_MAIL == "mail bob@gmail.com or user@paytm.com or bob@gmail.com"
DefaultGreeting == "Hello"

\* request.message of the primary endpoint: a plain string, a dict (judge
\* format) or a pydantic object; has_text: the dict key / the attribute exists
RawMessages ==
    [kind : {"str"}, has_text : {FALSE}, text : {"", T_UPI, T_MAIL}]
    \cup [kind : {"dict"}, has_text : {FALSE}, text : {""}]
    \cup [kind : {"dict", "obj"}, has_text : {TRUE}, text : {"", T_UPI}]

\* str(raw_message): the string itself for a str, the (never empty) field
\* listing "name=value ..." for a pydantic object
Str(raw) ==
    IF raw.kind = "str" THEN raw.text
    ELSE "text='" \o raw.text \o "'"

\* getattr(raw_message, "text", "")
GetAttrText(raw) == IF raw.kind = "obj" /\ raw.has_text THEN raw.text ELSE ""

\* routes.py 70-81
MessageText(raw) ==
    LET extracted == IF raw.kind = "dict"
                     THEN (IF raw.has_text THEN raw.text ELSE "")
                     ELSE (IF GetAttrText(raw) # "" THEN GetAttrText(raw) ELSE Str(raw))
    IN  IF extracted = "" THEN DefaultGreeting ELSE extracted

(***************************************************************************)
(* IntelligenceExtractor (app/services/intelligence_extractor.py).         *)
(* re.findall of each pattern, tabulated for the texts of the model: the   *)
(* list of matches in order of occurrence, duplicates included.            *)
(***************************************************************************)
UPI_PATTERN(message) ==
    CASE message = T_UPI -> <<"merchant@ybl">>
      [] message = T_MAIL -> <<"bob@gmail", "user@paytm", "bob@gmail">>
      [] OTHER -> <<>>

PHONE_PATTERN(message) ==
    CASE message = T_UPI -> <<"9876543210">>
      [] OTHER -> <<>>

URL_PATTERN(message) ==
    CASE message = T_UPI -> <<"http://x.co/a">>
      [] OTHER -> <<>>

BANK_PATTERN(message) ==
    CASE message = T_UPI -> <<"123456789012">>
      [] OTHER -> <<>>

EMAIL_PATTERN(message) ==
    CASE message = T_MAIL -> <<"bob@gmail.com", "user@paytm.com", "bob@gmail.com">>
      [] OTHER -> <<>>

\* list(set(xs)): the order of the result is not defined, a set models it
ListSet(xs) == {xs[i] : i \in 1..Len(xs)}

upi_handles == {"paytm", "oksbi", "ybl", "apl", "axl", "ibl", "icici"}

\* email.split('@')[-1].lower()
Domain(email) ==
    CASE email = "bob@gmail.com" -> "gmail.com"
      [] email = "user@paytm.com" -> "paytm.com"
      [] OTHER -> email

\* handle in domain (substring test), tabulated for the domains of the model
HandleInDomain(handle, domain) ==
    CASE domain = "paytm.com" -> handle = "paytm"
      [] OTHER -> handle = domain

\* mutant: the domain compared with the handles instead of searched for them
IsUpiIdExactDomain(email) == Domain(email) \in upi_handles

\* IntelligenceExtractor._is_upi_id
IsUpiId(email) == \E handle \in upi_handles : HandleInDomain(handle, Domain(email))

EmptyReport ==
    [upiIds |-> {}, phoneNumbers |-> {}, urls |-> {}, bankDetails |-> {},
     emailAddresses |-> {}]

\* IntelligenceExtractor.extract
Extract(message) ==
    LET email_matches == EMAIL_PATTERN(message)
        emails == SelectSeq(email_matches, LAMBDA e : ~IsUpiId(e))
    IN  [upiIds |-> ListSet(UPI_PATTERN(message)),
         phoneNumbers |-> ListSet(PHONE_PATTERN(message)),
         urls |-> ListSet(URL_PATTERN(message)),
         bankDetails |-> ListSet(BANK_PATTERN(message)),
         emailAddresses |-> ListSet(emails)]

\* list(some_set): the elements of the set, each once, in an order that
\* depends on the hash seed of the run; every order is a possible result
SetLists(S) ==
    {xs \in [1..Cardinality(S) -> S] :
        \A i, j \in 1..Cardinality(S) : xs[i] = xs[j] => i = j}

\* IntelligenceReport() with its fields as the lists they are
EmptyListReport ==
    [upiIds |-> <<>>, phoneNumbers |-> <<>>, urls |-> <<>>, bankDetails |-> <<>>,
     emailAddresses |-> <<>>]

\* the loop of merge_reports for one field: all_x.extend(report.x) in turn
RECURSIVE ExtendAll(_, _)
ExtendAll(reports, field) ==
    IF reports = <<>> THEN <<>>
    ELSE reports[1][field] \o ExtendAll(Tail(reports), field)

\* mutant: the merged report overwritten by each report of the loop
MergeReportsLast(reports) ==
    {IF reports = <<>> THEN EmptyListReport ELSE reports[Len(reports)]}

\* IntelligenceExtractor.merge_reports: the reports are lists of strings,
\* the result holds list(set(...)) of each concatenation.  The value is the
\* set of the reports the call may return, one for every order of every
\* list.
merge_reports(reports) ==
    [upiIds : SetLists(ListSet(ExtendAll(reports, "upiIds"))),
     phoneNumbers : SetLists(ListSet(ExtendAll(reports, "phoneNumbers"))),
     urls : SetLists(ListSet(ExtendAll(reports, "urls"))),
     bankDetails : SetLists(ListSet(ExtendAll(reports, "bankDetails"))),
     emailAddresses : SetLists(ListSet(ExtendAll(reports, "emailAddresses")))]

\* mutant: the session's lists are overwritten by the new report
MergeReplacing(intelligence, intel) == intel

\* routes.py 105-116 / 181-191: extend every field, then list(set(...))
MergeIntoSession(intelligence, intel) ==
    [upiIds |-> intelligence.upiIds \cup intel.upiIds,
     phoneNumbers |-> intelligence.phoneNumbers \cup intel.phoneNumbers,
     urls |-> intelligence.urls \cup intel.urls,
     bankDetails |-> intelligence.bankDetails \cup intel.bankDetails,
     emailAddresses |-> intelligence.emailAddresses \cup intel.emailAddresses]

(***************************************************************************)
(* ReplyGenerator (app/services/reply_generator.py).                       *)
(***************************************************************************)
INITIAL_RESPONSES ==
    <<"Hello! Thanks for reaching out. What is this about?",
      "Hi there! I got your message. Can you tell me more?",
      "Hey! I'm interested. Please explain more.",
      "Hello! This sounds interesting. What do I need to do?">>

CURIOUS_RESPONSES ==
    <<"That sounds interesting. Can you provide more details?",
      "I'm not sure I understand. Can you explain further?",
      "This is new to me. How does it work exactly?",
      "Could you tell me more about this?">>

CAUTIOUS_RESPONSES ==
    <<"I want to be sure about this. What are the next steps?",
      "This seems unusual. Can you verify your identity?",
      "I need to think about this. Can you send me more information?",
      "I'm a bit confused. Can you clarify what you need from me?">>

FINANCIAL_RESPONSES ==
    <<"What payment method do you accept?",
      "How much do I need to pay?",
      "Can you send me your payment details?",
      "Is there a processing fee involved?",
      "What's your UPI ID or bank account number?">>

PRIZE_RESPONSES ==
    <<"Really? I won something? That's amazing!",
      "What prize did I win? How do I claim it?",
      "This is exciting! What do I need to do to get my prize?",
      "I didn't enter any contest. Are you sure it's me?">>

JOB_RESPONSES ==
    <<"This job sounds perfect! What are the details?",
      "I'm looking for work. What's the salary?",
      "Is this full-time or part-time? What are the requirements?",
      "When can I start? Do I need to pay anything upfront?">>

STALLING_RESPONSES ==
    <<"Let me check my account and get back to you.",
      "I need to discuss this with my family first.",
      "Can you give me some time to think about it?",
      "I'm at work right now. Can we continue this later?">>

ENGAGEMENT_RESPONSES ==
    <<"Okay, I'm ready. What should I do next?",
      "I understand. Please guide me through the process.",
      "I'm interested in proceeding. What's the next step?",
      "Sounds good. How do we move forward?">>

WINDING_DOWN_RESPONSES ==
    <<"I think I need more time to consider this.",
      "Let me verify this information first.",
      "I'll get back to you after checking.",
      "This is taking longer than I expected. Can we pause?">>

endings ==
    <<"I need to go now. Thanks for the information.",
      "I'll think about it and let you know.",
      "Sorry, I have to leave. Talk later.",
      "I need to check this with someone. Bye for now.">>

\* The outcomes of the random draws of one call: pick is the index drawn by
\* random.choice (reduced modulo the length of the list chosen from, so that
\* every template of every list can be drawn), lt60,
\* lt40 and lt50 are the outcomes of random.random() < 0.6, < 0.4 and < 0.5
Picks == 0..(MaxTemplate - 1)

RandomOutcomes ==
    [pick : Picks, lt60 : BOOLEAN, lt40 : BOOLEAN, lt50 : BOOLEAN]

\* random.choice(responses), pick being the index drawn
Choice(responses, pick) == responses[(pick % Len(responses)) + 1]

\* mutant: the stage thresholds tested with < instead of <=
generate_reply_strict(message, scam_intents, message_count, rnd) ==
    IF message_count = 0 THEN Choice(INITIAL_RESPONSES, rnd.pick)
    ELSE IF message_count < 3 THEN
        IF "FAKE_PRIZE" \in scam_intents THEN Choice(PRIZE_RESPONSES, rnd.pick)
        ELSE IF "JOB_SCAM" \in scam_intents THEN Choice(JOB_RESPONSES, rnd.pick)
        ELSE Choice(CURIOUS_RESPONSES, rnd.pick)
    ELSE IF message_count < 8 THEN
        IF /\ {"FINANCIAL_FRAUD", "UPI_SCAM", "FAKE_PRIZE"} \cap scam_intents # {}
           /\ rnd.lt60
        THEN Choice(FINANCIAL_RESPONSES, rnd.pick)
        ELSE IF rnd.lt40 THEN Choice(CAUTIOUS_RESPONSES, rnd.pick)
        ELSE Choice(ENGAGEMENT_RESPONSES, rnd.pick)
    ELSE IF message_count < 15 THEN
        IF rnd.lt50 THEN Choice(STALLING_RESPONSES, rnd.pick)
        ELSE Choice(FINANCIAL_RESPONSES, rnd.pick)
    ELSE Choice(WINDING_DOWN_RESPONSES, rnd.pick)

\* ReplyGenerator.generate_reply
generate_reply(message, scam_intents, message_count, rnd) ==
    IF message_count = 0 THEN Choice(INITIAL_RESPONSES, rnd.pick)
    ELSE IF message_count <= 3 THEN
        IF "FAKE_PRIZE" \in scam_intents THEN Choice(PRIZE_RESPONSES, rnd.pick)
        ELSE IF "JOB_SCAM" \in scam_intents THEN Choice(JOB_RESPONSES, rnd.pick)
        ELSE Choice(CURIOUS_RESPONSES, rnd.pick)
    ELSE IF message_count <= 8 THEN
        IF /\ {"FINANCIAL_FRAUD", "UPI_SCAM", "FAKE_PRIZE"} \cap scam_intents # {}
           /\ rnd.lt60
        THEN Choice(FINANCIAL_RESPONSES, rnd.pick)
        ELSE IF rnd.lt40 THEN Choice(CAUTIOUS_RESPONSES, rnd.pick)
        ELSE Choice(ENGAGEMENT_RESPONSES, rnd.pick)
    ELSE IF message_count <= 15 THEN
        IF rnd.lt50 THEN Choice(STALLING_RESPONSES, rnd.pick)
        ELSE Choice(FINANCIAL_RESPONSES, rnd.pick)
    ELSE Choice(WINDING_DOWN_RESPONSES, rnd.pick)

\* ReplyGenerator.generate_goodbye
generate_goodbye(pick) == Choice(endings, pick)

FallbackReply == "Why is my account being suspended?"

(***************************************************************************)
(* Session and SessionManager (app.services.session_manager), modelled     *)
(* from the specification: the module is imported by routes.py but is not  *)
(* in the source tree.                                                     *)
(***************************************************************************)
\* Session(session_id) as constructed by get_or_create_session
NewSession(session_id, t) ==
    [session_id |-> session_id, messages |-> <<>>, message_count |-> 0,
     scam_intents |-> {}, confidence_scores |-> <<>>,
     intelligence |-> EmptyReport, status |-> "ACTIVE",
     termination_reason |-> "NONE", last_activity |-> t, collected |-> FALSE]

\* Session.add_message: appends; message_count counts scammer messages
add_message(session, role, content, t) ==
    [session EXCEPT
        !.messages = Append(@, [role |-> role, content |-> content]),
        !.message_count = IF role = "scammer" THEN @ + 1 ELSE @,
        !.last_activity = t]

\* Session.add_scam_intent
add_scam_intent(session, intent) ==
    [session EXCEPT !.scam_intents = @ \cup {intent}]

\* Session.add_confidence_score
add_confidence_score(session, confidence) ==
    [session EXCEPT !.confidence_scores = Append(@, confidence)]

\* the TTL test shared by should_terminate and the expiry sweep
Expired(session, t) == t - session.last_activity > session_timeout_seconds

\* Session.should_terminate: the checks in their fixed order
should_terminate(session, t) ==
    IF session.message_count >= settings.max_messages_per_session
    THEN [terminate |-> TRUE, reason |-> "MAX_MESSAGES_REACHED"]
    ELSE IF Expired(session, t)
    THEN [terminate |-> TRUE, reason |-> "SESSION_TIMEOUT"]
    ELSE [terminate |-> FALSE, reason |-> "NONE"]

\* Session.terminate: sets status and reason once, a no-op afterwards
terminate(session, reason) ==
    IF session.status = "TERMINATED" THEN session
    ELSE [session EXCEPT !.status = "TERMINATED", !.termination_reason = reason]

(***************************************************************************)
(* ScamDetector (app.services.scam_detector), an external collaborator:    *)
(* the results it may report for a message.                                *)
(***************************************************************************)
DetectorResults ==
    { [is_scam |-> FALSE, scam_intents |-> {}, confidence |-> 0],
      [is_scam |-> TRUE, scam_intents |-> {"FAKE_PRIZE", "UPI_SCAM"},
       confidence |-> 90] }

NoDetection == [is_scam |-> FALSE, scam_intents |-> {}, confidence |-> 0]

\* ScamDetector.detect(message_text): a stateless classifier, its result a
\* function of the text.  The text that names a UPI id and a prize is
\* reported as a scam, the other texts of the model are not.
detect(message_text) ==
    CHOOSE d \in DetectorResults : d.is_scam = (message_text = T_UPI)

(***************************************************************************)
(* Direct calls of the stateless services: ReplyGenerator.generate_reply   *)
(* and IntelligenceExtractor.merge_reports applied to arguments no         *)
(* handler of routes.py builds within the bounds of the model.             *)
(***************************************************************************)
\* largest message_count handed to generate_reply
MaxTurn == 17
\* longest list handed to merge_reports
MaxReports == 3
\* indexes random.choice may draw in a direct call
MaxChoice == 5

\* ScamIntent, the tags the detector reports
Intents == {"FINANCIAL_FRAUD", "UPI_SCAM", "FAKE_PRIZE", "JOB_SCAM", "PHISHING"}

\* IntelligenceReport values handed to merge_reports
SampleReports ==
    { EmptyListReport,
      [EmptyListReport EXCEPT !.upiIds = <<"merchant@ybl">>,
                              !.phoneNumbers = <<"9876543210">>,
                              !.urls = <<"http://x.co/a">>,
                              !.bankDetails = <<"123456789012">>],
      [EmptyListReport EXCEPT !.upiIds = <<"bob@gmail", "user@paytm">>,
                              !.emailAddresses = <<"bob@gmail.com">>],
      [EmptyListReport EXCEPT !.upiIds = <<"merchant@ybl", "merchant@ybl">>,
                              !.phoneNumbers = <<"9123456780">>] }

\* the lists of at most n reports
ReportLists(n) == UNION {[1..k -> SampleReports] : k \in 0..n}

NoRandom == [pick |-> 0, lt60 |-> FALSE, lt40 |-> FALSE, lt50 |-> FALSE]

\* no direct call
NoProbe ==
    [fn |-> "none", pc |-> "idle", message |-> "", scam_intents |-> {},
     message_count |-> 0, rnd |-> NoRandom, reports |-> <<>>, reply |-> "",
     merged |-> EmptyListReport]

\* the direct calls considered, before they run
ProbeCalls ==
    {[NoProbe EXCEPT !.fn = "generate_reply", !.pc = "call", !.message = m,
                     !.scam_intents = intents, !.message_count = k] :
        m \in {DefaultGreeting, T_UPI}, intents \in SUBSET Intents, k \in 0..MaxTurn}
    \cup
    {[NoProbe EXCEPT !.fn = "merge_reports", !.pc = "call", !.reports = reports] :
        reports \in ReportLists(MaxReports)}

\* The locals of a handler and, once it has returned, its response.
IdleFrame ==
    [pc |-> "idle", ep |-> "none", method |-> "", sessionId |-> "none",
     raw |-> [kind |-> "str", has_text |-> FALSE, text |-> ""],
     message_text |-> "", session |-> NoSession, created |-> FALSE,
     detection |-> NoDetection, intel |-> EmptyReport,
     should_terminate |-> FALSE, termination_reason |-> "NONE", reply |-> "",
     code |-> 0, status |-> "", scamIntents |-> {}, shouldContinue |-> FALSE,
     active_sessions |-> 0]

Init ==
    /\ now = 0
    /\ heap = <<>>
    /\ store = [id \in SessionIds |-> NoSession]
    /\ tasks = [t \in Tasks |-> IdleFrame]
    /\ callbacks = <<>>
    /\ requests = MaxRequests
    /\ failures = 0
    /\ probe = NoProbe
    /\ settings = [max_messages_per_session |-> max_messages_per_session]

\* a handler is in the middle of its body
Running(t) == tasks[t].pc \notin {"idle", "returned", "raised"}

\* mutant: a handler that awaits in its body lets the loop run others
LoopFreeAcrossAwait == TRUE

\* The handlers are coroutines without an await: the loop runs another
\* coroutine only when no handler is in the middle of its body.
LoopFree == \A t \in Tasks : ~Running(t)

\* the task the loop creates for the next request: the first free slot,
\* once the response of the request before has left
IsNextTask(t) ==
    /\ tasks[t].pc = "idle"
    /\ \A u \in Tasks : u < t => Running(u)

\* A Session object is reachable through the store, through the local
\* variable of a handler in the middle of its body (the local goes with the
\* return statement or the exception) or through a send_callback task that
\* has not ended.
Referenced(obj, sessions, frames, cbs) ==
    \/ \E id \in SessionIds : sessions[id] = obj
    \/ \E t \in Tasks :
          /\ frames[t].pc \notin {"idle", "returned", "raised"}
          /\ frames[t].session = obj
    \/ \E i \in 1..Len(cbs) : cbs[i].state = "scheduled" /\ cbs[i].session = obj

\* What is kept of an object nothing refers to any more: the interpreter
\* frees it; its id, status and termination reason stay on record.
Collected(session) ==
    [NewSession(session.session_id, 0) EXCEPT
        !.status = session.status,
        !.termination_reason = session.termination_reason,
        !.collected = TRUE]

\* reference counting: every object without a reference is freed
Collect(objects, sessions, frames, cbs) ==
    [obj \in DOMAIN objects |->
        IF Referenced(obj, sessions, frames, cbs) THEN objects[obj]
        ELSE Collected(objects[obj])]

\* SessionManager.get_active_session_count
get_active_session_count(sessions) ==
    Cardinality({id \in SessionIds : sessions[id] # NoSession})

\* SessionManager.delete_session
delete_session(sessions, session_id) ==
    [sessions EXCEPT ![session_id] = NoSession]

\* SessionManager.cleanup_expired_sessions
cleanup_expired_sessions(sessions, objects, t) ==
    [id \in SessionIds |->
        IF sessions[id] # NoSession /\ Expired(objects[sessions[id]], t)
        THEN NoSession ELSE sessions[id]]

(***************************************************************************)
(* The message handlers: hackathon_honeypot (ep = "honeypot", routes.py    *)
(* 34-154) and process_message (ep = "v1", routes.py 161-228).  The two    *)
(* bodies run the same steps; where they differ the step tests ep.         *)
(***************************************************************************)
Endpoints == {"honeypot", "v1"}

\* the message text a handler works on: 70-81 for the primary endpoint,
\* event.message as it is for the legacy one
InboundText(ep, raw) == IF ep = "honeypot" THEN MessageText(raw) ELSE raw.text

\* 86 / 169: session_manager.get_or_create_session(sessionId)
GetOrCreate(t, ep, id, raw) ==
    /\ LoopFree
    /\ IsNextTask(t)
    /\ requests > 0
    /\ ep = "v1" => raw.kind = "str" /\ raw.text # ""
    /\ store[id] = NoSession => Len(heap) < MaxSessions
    /\ LET absent == store[id] = NoSession
           obj == IF absent THEN Len(heap) + 1 ELSE store[id]
       IN  /\ heap' = IF absent THEN Append(heap, NewSession(id, now)) ELSE heap
           /\ store' = [store EXCEPT ![id] = obj]
           /\ tasks' = [tasks EXCEPT ![t] =
                  [IdleFrame EXCEPT !.pc = "got", !.ep = ep, !.method = "POST",
                                    !.sessionId = id,
                                    !.raw = raw,
                                    !.message_text = InboundText(ep, raw),
                                    !.session = obj, !.created = absent]]
    /\ requests' = requests - 1
    /\ UNCHANGED <<now, callbacks, failures, probe, settings>>

\* 87 / 170: session.add_message("scammer", message_text)
AddScammerMessage(t) ==
    /\ tasks[t].pc = "got"
    /\ heap' = [heap EXCEPT ![tasks[t].session] =
                   add_message(@, "scammer", tasks[t].message_text, now)]
    /\ tasks' = [tasks EXCEPT ![t].pc = "ingested"]
    /\ UNCHANGED <<now, store, callbacks, requests, failures, probe, settings>>

\* the loop of 94-95 / 174-175: session.add_scam_intent(intent) for each
\* intent reported
RECURSIVE AddIntents(_, _)
AddIntents(session, intents) ==
    IF intents = {} THEN session
    ELSE LET intent == CHOOSE i \in intents : TRUE
         IN  AddIntents(add_scam_intent(session, intent), intents \ {intent})

\* 92-97 / 172-177: scam_detector.detect returns
Detect(t, d) ==
    /\ tasks[t].pc = "ingested"
    /\ heap' = [heap EXCEPT ![tasks[t].session] =
                   add_confidence_score(AddIntents(@, d.scam_intents), d.confidence)]
    /\ tasks' = [tasks EXCEPT ![t].pc = "detected", ![t].detection = d]
    /\ UNCHANGED <<now, store, callbacks, requests, failures, probe, settings>>

\* 92 / 172: scam_detector.detect raises; nothing in the handler catches
\* it, the request ends with the framework's error response
DetectRaises(t) ==
    /\ tasks[t].pc = "ingested"
    /\ failures < MaxFailures
    /\ failures' = failures + 1
    /\ tasks' = [tasks EXCEPT ![t].pc = "raised", ![t].code = 500,
                              ![t].status = "error"]
    /\ UNCHANGED <<now, heap, store, callbacks, requests, probe, settings>>

\* 103-116 / 179-191: extract and merge into session.intelligence
ExtractIntel(t) ==
    /\ tasks[t].pc = "detected"
    /\ LET intel == Extract(tasks[t].message_text)
       IN  /\ heap' = [heap EXCEPT ![tasks[t].session].intelligence =
                          MergeIntoSession(@, intel)]
           /\ tasks' = [tasks EXCEPT ![t].pc = "extracted", ![t].intel = intel]
    /\ UNCHANGED <<now, store, callbacks, requests, failures, probe, settings>>

\* mutant: the termination check made before the message is counted
CheckTerminationBeforeCount(t) ==
    /\ tasks[t].pc = "extracted"
    /\ LET session == heap[tasks[t].session]
           r == should_terminate(
                    [session EXCEPT !.message_count = @ - 1], now)
       IN  tasks' = [tasks EXCEPT ![t].pc = "decided",
                                  ![t].should_terminate = r.terminate,
                                  ![t].termination_reason = r.reason]
    /\ UNCHANGED <<now, heap, store, callbacks, requests, failures, probe, settings>>

\* 121 / 193: session.should_terminate()
CheckTermination(t) ==
    /\ tasks[t].pc = "extracted"
    /\ LET r == should_terminate(heap[tasks[t].session], now)
       IN  tasks' = [tasks EXCEPT ![t].pc = "decided",
                                  ![t].should_terminate = r.terminate,
                                  ![t].termination_reason = r.reason]
    /\ UNCHANGED <<now, heap, store, callbacks, requests, failures, probe, settings>>

\* 127 / 196: reply_generator.generate_goodbye()
Goodbye(t, pick) ==
    /\ tasks[t].pc = "decided"
    /\ tasks[t].should_terminate
    /\ tasks' = [tasks EXCEPT ![t].pc = "goodbye", ![t].reply = generate_goodbye(pick)]
    /\ UNCHANGED <<now, heap, store, callbacks, requests, failures, probe, settings>>

\* mutant: terminate called with a fixed reason
TerminateFixedReason(t) ==
    /\ tasks[t].pc = "goodbye"
    /\ heap' = [heap EXCEPT ![tasks[t].session] =
                   terminate(@, "MAX_MESSAGES_REACHED")]
    /\ tasks' = [tasks EXCEPT ![t].pc = "terminated"]
    /\ UNCHANGED <<now, store, callbacks, requests, failures, probe, settings>>

\* 128 / 199: session.terminate(termination_reason)
Terminate(t) ==
    /\ tasks[t].pc = "goodbye"
    /\ heap' = [heap EXCEPT ![tasks[t].session] =
                   terminate(@, tasks[t].termination_reason)]
    /\ tasks' = [tasks EXCEPT ![t].pc = "terminated"]
    /\ UNCHANGED <<now, store, callbacks, requests, failures, probe, settings>>

\* mutant: the callback awaited in the handler; its failure is the handler's
ScheduleCallbackAwaited(t) ==
    /\ tasks[t].pc = "terminated"
    /\ \E outcome \in {"delivered", "failed"} :
          /\ callbacks' = Append(callbacks, [session |-> tasks[t].session,
                                             state |-> outcome])
          /\ tasks' = IF outcome = "delivered"
                      THEN [tasks EXCEPT ![t].pc = "scheduled"]
                      ELSE [tasks EXCEPT ![t].pc = "raised", ![t].code = 500,
                                         ![t].status = "error"]
    /\ UNCHANGED <<now, heap, store, requests, failures, probe, settings>>

\* mutant: log_summary raises, the handler ends before delete_session
ScheduleCallbackThenRaise(t) ==
    /\ tasks[t].pc = "terminated"
    /\ callbacks' = Append(callbacks, [session |-> tasks[t].session,
                                       state |-> "scheduled"])
    /\ tasks' = [tasks EXCEPT ![t].pc = "raised", ![t].code = 500,
                              ![t].status = "error"]
    /\ UNCHANGED <<now, heap, store, requests, failures, probe, settings>>

\* 132-133 / 200-201: asyncio.create_task(callback_service.send_callback(session))
ScheduleCallback(t) ==
    /\ tasks[t].pc = "terminated"
    /\ callbacks' = Append(callbacks, [session |-> tasks[t].session,
                                       state |-> "scheduled"])
    /\ tasks' = [tasks EXCEPT ![t].pc = "scheduled"]
    /\ UNCHANGED <<now, heap, store, requests, failures, probe, settings>>

\* mutant: the session deleted as soon as termination is decided
DeleteSessionFirst(t) ==
    /\ tasks[t].pc = "decided"
    /\ tasks[t].should_terminate
    /\ store[tasks[t].sessionId] # NoSession
    /\ store' = delete_session(store, tasks[t].sessionId)
    /\ UNCHANGED <<now, heap, tasks, callbacks, requests, failures, probe, settings>>

\* mutant: the terminated session left in the store
DeleteSessionSkipped(t) ==
    /\ tasks[t].pc = "scheduled"
    /\ tasks' = [tasks EXCEPT ![t].pc = "deleted"]
    /\ UNCHANGED <<now, heap, store, callbacks, requests, failures, probe, settings>>

\* 135 / 203: session_manager.delete_session(sessionId)
DeleteSession(t) ==
    /\ tasks[t].pc = "scheduled"
    /\ store' = delete_session(store, tasks[t].sessionId)
    /\ tasks' = [tasks EXCEPT ![t].pc = "deleted"]
    /\ UNCHANGED <<now, heap, callbacks, requests, failures, probe, settings>>

\* mutant: the callback fired on the non-terminating branch as well
StagedReplyWithCallback(t, rnd) ==
    /\ tasks[t].pc = "decided"
    /\ ~tasks[t].should_terminate
    /\ LET session == heap[tasks[t].session]
       IN  tasks' = [tasks EXCEPT
               ![t].pc = "replied",
               ![t].reply = generate_reply(tasks[t].message_text,
                                           session.scam_intents,
                                           session.message_count - 1, rnd)]
    /\ callbacks' = Append(callbacks, [session |-> tasks[t].session,
                                       state |-> "scheduled"])
    /\ UNCHANGED <<now, heap, store, requests, failures, probe, settings>>

\* mutant: the length of the history (agent replies included) taken for
\* the number of scammer messages
StagedReplyCountingAll(t, rnd) ==
    /\ tasks[t].pc = "decided"
    /\ ~tasks[t].should_terminate
    /\ LET session == heap[tasks[t].session]
       IN  tasks' = [tasks EXCEPT
               ![t].pc = "replied",
               ![t].reply = generate_reply(tasks[t].message_text,
                                           session.scam_intents,
                                           Len(session.messages) - 1, rnd)]
    /\ UNCHANGED <<now, heap, store, callbacks, requests, failures, probe, settings>>

\* 137-141 / 205-209: reply_generator.generate_reply(...)
StagedReply(t, rnd) ==
    /\ tasks[t].pc = "decided"
    /\ ~tasks[t].should_terminate
    /\ LET session == heap[tasks[t].session]
       IN  tasks' = [tasks EXCEPT
               ![t].pc = "replied",
               ![t].reply = generate_reply(tasks[t].message_text,
                                           session.scam_intents,
                                           session.message_count - 1, rnd)]
    /\ UNCHANGED <<now, heap, store, callbacks, requests, failures, probe, settings>>

\* mutant: the fallback test of the primary endpoint inverted
FinalReplyInverted(ep, reply) ==
    IF ep = "honeypot" /\ reply # "" THEN FallbackReply ELSE reply

\* 143-144: the fallback of the primary endpoint; the legacy one has none
FinalReply(ep, reply) ==
    IF ep = "honeypot" /\ reply = "" THEN FallbackReply ELSE reply

\* 146-154 / 212-228: record the agent reply and return the response
Respond(t) ==
    /\ tasks[t].pc \in {"deleted", "replied"}
    /\ LET f == tasks[t]
           reply == FinalReply(f.ep, f.reply)
       IN  /\ tasks' = [tasks EXCEPT ![t] =
                  [f EXCEPT !.pc = "returned", !.code = 200, !.status = "success",
                            !.reply = reply,
                            !.scamIntents =
                                IF f.ep = "v1"
                                THEN (IF f.detection.scam_intents = {}
                                      THEN {"NONE"} ELSE f.detection.scam_intents)
                                ELSE {},
                            !.shouldContinue = (f.ep = "v1" /\ ~f.should_terminate)]]
           /\ heap' = Collect([heap EXCEPT ![f.session] =
                                   add_message(@, "agent", reply, now)],
                              store, tasks', callbacks)
    /\ UNCHANGED <<now, store, callbacks, requests, failures, probe, settings>>

\* the response (or the error) has left: the task is over
Release(t) ==
    /\ tasks[t].pc \in {"returned", "raised"}
    /\ tasks' = [tasks EXCEPT ![t] = IdleFrame]
    /\ UNCHANGED <<now, heap, store, callbacks, requests, failures, probe, settings>>

(***************************************************************************)
(* The other routes and the environment.                                   *)
(***************************************************************************)
\* mutant: the ping runs the expiry sweep on its way
PingSweeping(t, method) ==
    /\ LoopFree
    /\ IsNextTask(t)
    /\ store' = cleanup_expired_sessions(store, heap, now)
    /\ tasks' = [tasks EXCEPT ![t] =
           [IdleFrame EXCEPT
               !.pc = "returned", !.ep = "ping", !.method = method,
               !.code = 200, !.status = "success",
               !.reply = IF method \in {"GET", "HEAD"} THEN "Honeypot API is active"
                         ELSE "Hello. How can I help you?"]]
    /\ heap' = Collect(heap, store', tasks', callbacks)
    /\ UNCHANGED <<now, callbacks, requests, failures, probe, settings>>

\* 52-65: GET / HEAD ping and POST without a body
Ping(t, method) ==
    /\ LoopFree
    /\ IsNextTask(t)
    /\ tasks' = [tasks EXCEPT ![t] =
           [IdleFrame EXCEPT
               !.pc = "returned", !.ep = "ping", !.method = method,
               !.code = 200, !.status = "success",
               !.reply = IF method \in {"GET", "HEAD"} THEN "Honeypot API is active"
                         ELSE "Hello. How can I help you?"]]
    /\ UNCHANGED <<now, heap, store, callbacks, requests, failures, probe, settings>>

\* mutant: the health query counts every session ever created
HealthCountingCreated(t) ==
    /\ LoopFree
    /\ IsNextTask(t)
    /\ tasks' = [tasks EXCEPT ![t] =
           [IdleFrame EXCEPT
               !.pc = "returned", !.ep = "health", !.code = 200, !.status = "healthy",
               !.active_sessions = Len(heap)]]
    /\ UNCHANGED <<now, heap, store, callbacks, requests, failures, probe, settings>>

\* 234-239: health_check
Health(t) ==
    /\ LoopFree
    /\ IsNextTask(t)
    /\ tasks' = [tasks EXCEPT ![t] =
           [IdleFrame EXCEPT
               !.pc = "returned", !.ep = "health", !.code = 200, !.status = "healthy",
               !.active_sessions = get_active_session_count(store)]]
    /\ UNCHANGED <<now, heap, store, callbacks, requests, failures, probe, settings>>

\* mutant: the count read before the sweep
CleanupCountingFirst(t) ==
    /\ LoopFree
    /\ IsNextTask(t)
    /\ store' = cleanup_expired_sessions(store, heap, now)
    /\ tasks' = [tasks EXCEPT ![t] =
           [IdleFrame EXCEPT
               !.pc = "returned", !.ep = "cleanup", !.code = 200, !.status = "success",
               !.active_sessions = get_active_session_count(store)]]
    /\ heap' = Collect(heap, store', tasks', callbacks)
    /\ UNCHANGED <<now, callbacks, requests, failures, probe, settings>>

\* 242-248: cleanup_sessions
Cleanup(t) ==
    /\ LoopFree
    /\ IsNextTask(t)
    /\ store' = cleanup_expired_sessions(store, heap, now)
    /\ tasks' = [tasks EXCEPT ![t] =
           [IdleFrame EXCEPT
               !.pc = "returned", !.ep = "cleanup", !.code = 200, !.status = "success",
               !.active_sessions = get_active_session_count(store')]]
    /\ heap' = Collect(heap, store', tasks', callbacks)
    /\ UNCHANGED <<now, callbacks, requests, failures, probe, settings>>

\* callback_service.send_callback(session) runs as its own task of the loop
\* and ends delivered or failed; a task that never runs stays scheduled
RunCallback(i, outcome) ==
    /\ LoopFree
    /\ i \in 1..Len(callbacks)
    /\ callbacks[i].state = "scheduled"
    /\ callbacks' = [callbacks EXCEPT ![i].state = outcome]
    /\ heap' = Collect(heap, store, tasks, callbacks')
    /\ UNCHANGED <<now, store, tasks, requests, failures, probe, settings>>

\* time passes: between requests, and while a handler is busy with the
\* detector and the extractor (the clock is next read by should_terminate)
Tick ==
    /\ now < MaxTime
    /\ \A t \in Tasks : tasks[t].pc \in {"idle", "extracted"}
    /\ now' = now + 1
    /\ UNCHANGED <<heap, store, tasks, callbacks, requests, failures, probe, settings>>

\* The requests of a run: every shape of body at /honeypot for the first
\* session id, plain strings at /v1/message and for the second session id.
Requests ==
    [ep : {"honeypot"}, id : {"s1"}, raw : RawMessages]
    \cup [ep : {"v1"}, id : {"s1"},
          raw : [kind : {"str"}, has_text : {FALSE}, text : {T_UPI, T_MAIL}]]
    \cup [ep : {"honeypot"}, id : {"s2"},
          raw : [kind : {"str"}, has_text : {FALSE}, text : {T_UPI}]]

Next ==
    \/ \E t \in Tasks, req \in Requests : GetOrCreate(t, req.ep, req.id, req.raw)
    \/ \E t \in Tasks : AddScammerMessage(t)
    \/ \E t \in Tasks : Detect(t, detect(tasks[t].message_text))
    \/ \E t \in Tasks : ExtractIntel(t)
    \/ \E t \in Tasks : CheckTermination(t)
    \/ \E t \in Tasks, pick \in Picks : Goodbye(t, pick)
    \/ \E t \in Tasks : Terminate(t)
    \/ \E t \in Tasks : ScheduleCallback(t)
    \/ \E t \in Tasks : DeleteSession(t)
    \/ \E t \in Tasks, rnd \in RandomOutcomes : StagedReply(t, rnd)
    \/ \E t \in Tasks : Respond(t)
    \/ \E t \in Tasks : Release(t)
    \/ \E t \in Tasks, method \in {"GET", "HEAD", "POST"} : Ping(t, method)
    \/ \E t \in Tasks : Health(t)
    \/ \E t \in Tasks : Cleanup(t)
    \/ \E i \in 1..MaxSessions, outcome \in {"delivered", "failed"} : RunCallback(i, outcome)
    \/ Tick

Spec == Init /\ [][Next]_vars

\* The same system with a scam detector that may fail.
NextFaults ==
    \/ Next
    \/ \E t \in Tasks : DetectRaises(t)

SpecFaults == Init /\ [][NextFaults]_vars

\* One conversation followed over several turns: the ceiling is configured
\* to MaxTurnMessages, and the requests are plain strings for one session.
TurnRequests ==
    [ep : {"honeypot"}, id : {"s1"},
     raw : [kind : {"str"}, has_text : {FALSE}, text : {T_UPI, T_MAIL}]]

InitTurns ==
    /\ now = 0
    /\ heap = <<>>
    /\ store = [id \in SessionIds |-> NoSession]
    /\ tasks = [t \in Tasks |-> IdleFrame]
    /\ callbacks = <<>>
    /\ requests = MaxTurnRequests
    /\ failures = 0
    /\ probe = NoProbe
    /\ settings = [max_messages_per_session |-> MaxTurnMessages]

NextTurns ==
    \/ \E t \in Tasks, req \in TurnRequests : GetOrCreate(t, req.ep, req.id, req.raw)
    \/ \E t \in Tasks : AddScammerMessage(t)
    \/ \E t \in Tasks : Detect(t, detect(tasks[t].message_text))
    \/ \E t \in Tasks : ExtractIntel(t)
    \/ \E t \in Tasks : CheckTermination(t)
    \/ \E t \in Tasks, pick \in Picks : Goodbye(t, pick)
    \/ \E t \in Tasks : Terminate(t)
    \/ \E t \in Tasks : ScheduleCallback(t)
    \/ \E t \in Tasks : DeleteSession(t)
    \/ \E t \in Tasks, rnd \in RandomOutcomes : StagedReply(t, rnd)
    \/ \E t \in Tasks : Respond(t)
    \/ \E t \in Tasks : Release(t)
    \/ \E i \in 1..MaxSessions, outcome \in {"delivered", "failed"} : RunCallback(i, outcome)
    \/ Tick

SpecTurns == InitTurns /\ [][NextTurns]_vars

(***************************************************************************)
(* The stateless services called directly.                                 *)
(***************************************************************************)
ProbeRandom ==
    [pick : 0..(MaxChoice - 1), lt60 : BOOLEAN, lt40 : BOOLEAN, lt50 : BOOLEAN]

\* reply_generator.generate_reply(message, scam_intents, message_count)
CallGenerateReply(rnd) ==
    /\ probe.fn = "generate_reply"
    /\ probe.pc = "call"
    /\ probe' = [probe EXCEPT
           !.pc = "done", !.rnd = rnd,
           !.reply = generate_reply(probe.message, probe.scam_intents,
                                    probe.message_count, rnd)]
    /\ UNCHANGED <<now, heap, store, tasks, callbacks, requests, failures, settings>>

\* intelligence_extractor.merge_reports(reports)
CallMergeReports ==
    /\ probe.fn = "merge_reports"
    /\ probe.pc = "call"
    /\ \E merged \in merge_reports(probe.reports) :
          probe' = [probe EXCEPT !.pc = "done", !.merged = merged]
    /\ UNCHANGED <<now, heap, store, tasks, callbacks, requests, failures, settings>>

InitCalls ==
    /\ now = 0
    /\ heap = <<>>
    /\ store = [id \in SessionIds |-> NoSession]
    /\ tasks = [t \in Tasks |-> IdleFrame]
    /\ callbacks = <<>>
    /\ requests = 0
    /\ failures = 0
    /\ probe \in ProbeCalls
    /\ settings = [max_messages_per_session |-> max_messages_per_session]

NextCalls ==
    \/ \E rnd \in ProbeRandom : CallGenerateReply(rnd)
    \/ CallMergeReports

SpecCalls == InitCalls /\ [][NextCalls]_vars

(***************************************************************************)
(* Properties.                                                             *)
(***************************************************************************)
Goodbyes == ListSet(endings)

IntelFields == {"upiIds", "phoneNumbers", "urls", "bankDetails", "emailAddresses"}

Reasons == {"MAX_MESSAGES_REACHED", "SESSION_TIMEOUT"}

\* a message request (of either handler) owns frame t
IsMessageTask(t) == tasks[t].ep \in Endpoints

\* the send_callback tasks created for an object
CallbacksFor(obj) ==
    Cardinality({i \in 1..Len(callbacks) : callbacks[i].session = obj})

\* C1: in the handling of a terminating message the goodbye reply is
\* generated before the session is deleted: whenever the session a handler
\* works on is no longer the one registered under its id, that handler
\* holds a reply of the goodbye category.
C1_GoodbyeBeforeDelete ==
    \A t \in Tasks :
        (IsMessageTask(t) /\ store[tasks[t].sessionId] # tasks[t].session)
            => tasks[t].reply \in Goodbyes

C1_Witness ==
    \E t \in Tasks :
        /\ tasks[t].ep = "v1"
        /\ tasks[t].pc = "deleted"
        /\ store[tasks[t].sessionId] = NoSession
        /\ tasks[t].reply \in Goodbyes

\* C2: the notifier is invoked exactly once per terminated session: every
\* Session object has one send_callback task if it has been terminated (and
\* the handler is past its create_task) and none otherwise, so that no
\* callback exists for a session that was not terminated, and between
\* requests the callbacks are as many as the terminated sessions.
C2_OneCallbackPerTermination ==
    /\ \A obj \in DOMAIN heap :
          CallbacksFor(obj) =
              IF /\ heap[obj].status = "TERMINATED"
                 /\ ~\E t \in Tasks : tasks[t].pc = "terminated" /\ tasks[t].session = obj
              THEN 1 ELSE 0
    /\ LoopFree =>
          Len(callbacks) =
              Cardinality({obj \in DOMAIN heap : heap[obj].status = "TERMINATED"})

C2_Witness ==
    \E i, j \in 1..Len(callbacks) :
        /\ i < j
        /\ callbacks[i].session # callbacks[j].session
        /\ heap[callbacks[i].session].session_id = heap[callbacks[j].session].session_id
        /\ LoopFree

\* C3: with the ceiling M and no timeout, a request that leaves its session
\* with fewer than M scammer messages is answered with a staged reply and
\* leaves the session registered and active; the request that records the
\* M-th scammer message is answered with a goodbye, the session is
\* terminated for MAX_MESSAGES_REACHED and is absent from the store when
\* the response is returned.  (The Session object is looked at for as long
\* as it exists: when the response is returned the store or the pending
\* callback holds it.)
C3_CeilingTerminates ==
    \A t \in Tasks :
        (/\ IsMessageTask(t)
         /\ tasks[t].pc = "returned"
         /\ ~heap[tasks[t].session].collected
         /\ tasks[t].termination_reason # "SESSION_TIMEOUT")
        => LET session == heap[tasks[t].session]
           IN  IF session.message_count < settings.max_messages_per_session
               THEN /\ tasks[t].reply \notin Goodbyes
                    /\ tasks[t].reply # ""
                    /\ store[tasks[t].sessionId] = tasks[t].session
                    /\ session.status = "ACTIVE"
               ELSE /\ session.message_count = settings.max_messages_per_session
                    /\ tasks[t].reply \in Goodbyes
                    /\ session.status = "TERMINATED"
                    /\ session.termination_reason = "MAX_MESSAGES_REACHED"
                    /\ store[tasks[t].sessionId] = NoSession

C3_Witness ==
    \E t \in Tasks :
        /\ tasks[t].ep = "honeypot"
        /\ tasks[t].pc = "returned"
        /\ heap[tasks[t].session].message_count = settings.max_messages_per_session
        /\ heap[tasks[t].session].termination_reason = "MAX_MESSAGES_REACHED"
        /\ tasks[t].reply \in Goodbyes
        /\ store[tasks[t].sessionId] = NoSession

\* C4: no session is reactivated.  The session get_or_create_session hands
\* to a handler is ACTIVE, and when the id was not registered it is a fresh
\* Session: no messages, message count 0, no intents, no confidence history,
\* no intelligence.
C4_FreshOrActive ==
    \A t \in Tasks :
        tasks[t].pc = "got" =>
            /\ heap[tasks[t].session].status = "ACTIVE"
            /\ ~heap[tasks[t].session].collected
            /\ tasks[t].created =>
                  heap[tasks[t].session] = NewSession(tasks[t].sessionId, now)

\* C4: a TERMINATED session stays TERMINATED in every step.
C4_TerminatedStays ==
    \A obj \in DOMAIN heap :
        heap[obj].status = "TERMINATED" => heap'[obj].status = "TERMINATED"

\* C4: both parts, in every reachable state and every step.
C4_NoReactivation == [](C4_FreshOrActive) /\ [][C4_TerminatedStays]_vars

C4_Witness ==
    \E t \in Tasks :
        /\ tasks[t].pc = "got"
        /\ tasks[t].created
        /\ \E obj \in DOMAIN heap :
              /\ obj # tasks[t].session
              /\ heap[obj].session_id = tasks[t].sessionId
              /\ heap[obj].status = "TERMINATED"

\* C5: once a message is classified and its intelligence merged, the
\* session's intents contain the intents reported for the message, every
\* intelligence field contains every item extracted from it, and the
\* confidence history has one entry per scammer message, the last one being
\* the confidence reported for this message (for as long as the Session
\* object exists).
C5_MessageAccumulated ==
    \A t \in Tasks :
        (/\ IsMessageTask(t)
         /\ tasks[t].pc \notin {"got", "ingested", "detected"}
         /\ ~heap[tasks[t].session].collected)
        => LET session == heap[tasks[t].session]
           IN  /\ tasks[t].detection.scam_intents \subseteq session.scam_intents
               /\ \A f \in IntelFields :
                     tasks[t].intel[f] \subseteq session.intelligence[f]
               /\ Len(session.confidence_scores) = session.message_count
               /\ session.confidence_scores[session.message_count]
                     = tasks[t].detection.confidence

\* C5: in every step a session that is still referenced keeps its intents
\* and every item of every intelligence field, and its confidence history
\* is unchanged or is the old history with one value appended.
C5_StepMonotonic ==
    \A obj \in DOMAIN heap :
        ~heap'[obj].collected =>
            /\ heap[obj].scam_intents \subseteq heap'[obj].scam_intents
            /\ \A f \in IntelFields :
                  heap[obj].intelligence[f] \subseteq heap'[obj].intelligence[f]
            /\ LET old == heap[obj].confidence_scores
                   new == heap'[obj].confidence_scores
               IN  /\ Len(new) \in {Len(old), Len(old) + 1}
                   /\ SubSeq(new, 1, Len(old)) = old

\* C5: accumulation is monotonic within one session.
C5_MonotonicAccumulation ==
    [](C5_MessageAccumulated) /\ [][C5_StepMonotonic]_vars

C5_Witness ==
    \E obj \in DOMAIN heap :
        /\ ~heap[obj].collected
        /\ Len(heap[obj].confidence_scores) = 2
        /\ heap[obj].intelligence.upiIds = {"merchant@ybl", "bob@gmail", "user@paytm"}
        /\ heap[obj].intelligence.emailAddresses = {"bob@gmail.com"}
        /\ heap[obj].scam_intents # {}

\* C6: the verdict a handler holds after should_terminate is either (false,
\* no reason) or (true, one reason of the closed set), and it is the first
\* condition that holds in the fixed order ceiling, then timeout; the
\* terminated session carries the reason of that verdict; terminate on a
\* TERMINATED session returns it unchanged, whatever the reason passed.
C6_OneReason ==
    /\ \A t \in Tasks :
          LET f == tasks[t]
              session == heap[f.session]
          IN  /\ (IsMessageTask(t) /\ f.pc \notin {"got", "ingested", "detected", "extracted"}) =>
                    \/ ~f.should_terminate /\ f.termination_reason = "NONE"
                    \/ f.should_terminate /\ f.termination_reason \in Reasons
              /\ f.pc = "decided" =>
                    f.termination_reason =
                        IF session.message_count >= settings.max_messages_per_session
                        THEN "MAX_MESSAGES_REACHED"
                        ELSE IF now - session.last_activity > session_timeout_seconds
                        THEN "SESSION_TIMEOUT"
                        ELSE "NONE"
              /\ (f.pc \in {"terminated", "scheduled", "deleted", "returned"}
                  /\ f.should_terminate) =>
                    /\ session.status = "TERMINATED"
                    /\ session.termination_reason = f.termination_reason
    /\ \A obj \in DOMAIN heap :
          /\ heap[obj].status = "ACTIVE" => heap[obj].termination_reason = "NONE"
          /\ heap[obj].status = "TERMINATED" =>
                /\ heap[obj].termination_reason \in Reasons
                /\ \A r \in Reasons : terminate(heap[obj], r) = heap[obj]

\* C6: the reason of a TERMINATED session never changes.
C6_ReasonStays ==
    \A obj \in DOMAIN heap :
        heap[obj].status = "TERMINATED" =>
            heap'[obj].termination_reason = heap[obj].termination_reason

\* C6: termination exclusivity, in every reachable state and every step.
C6_TerminationExclusivity == [](C6_OneReason) /\ [][C6_ReasonStays]_vars

C6_Witness ==
    \E t \in Tasks :
        /\ tasks[t].pc = "decided"
        /\ heap[tasks[t].session].message_count >= settings.max_messages_per_session
        /\ now - heap[tasks[t].session].last_activity > session_timeout_seconds
        /\ tasks[t].termination_reason = "MAX_MESSAGES_REACHED"

\* C7: requests are atomic with respect to each other and to the sweep:
\* while a handler is in the middle no other request or sweep has a frame;
\* the session a running handler works on is the one registered under its
\* id until that handler deletes it (one Session per id); and between
\* requests every registered session holds, for each scammer message
\* counted, that message followed by the agent's reply, with the intents,
\* confidence and intelligence history of all of them (no update lost).
C7_RequestsAtomic ==
    /\ \A t, u \in Tasks : (Running(t) /\ u # t) => tasks[u].pc = "idle"
    /\ \A t \in Tasks :
          (Running(t) /\ tasks[t].pc \notin {"deleted"}) =>
              store[tasks[t].sessionId] = tasks[t].session
    /\ \A obj1, obj2 \in DOMAIN heap :
          (/\ obj1 # obj2
           /\ heap[obj1].session_id = heap[obj2].session_id
           /\ heap[obj1].status = "ACTIVE" /\ heap[obj2].status = "ACTIVE")
          => heap[obj1].collected \/ heap[obj2].collected
    /\ LoopFree =>
          \A id \in SessionIds :
              store[id] # NoSession =>
                  LET session == heap[store[id]]
                  IN  /\ Len(session.messages) = 2 * session.message_count
                      /\ Len(session.confidence_scores) = session.message_count
                      /\ \A k \in 1..session.message_count :
                            /\ session.messages[2 * k - 1].role = "scammer"
                            /\ session.messages[2 * k].role = "agent"
                            /\ \A f \in IntelFields :
                                  Extract(session.messages[2 * k - 1].content)[f]
                                      \subseteq session.intelligence[f]

C7_Witness ==
    \E t \in Tasks :
        /\ tasks[t].pc = "ingested"
        /\ ~tasks[t].created
        /\ heap[tasks[t].session].message_count = 2
        /\ Len(heap[tasks[t].session].messages) = 3

\* C8: a terminating request is answered with the success reply whatever
\* has become of its callback; once the handler of a terminated session is
\* over, the session is TERMINATED with a reason, is not registered in the
\* store and has exactly one callback, whatever the state of that callback.
C8_Isolated ==
    /\ \A t \in Tasks :
          (IsMessageTask(t) /\ ~Running(t) /\ tasks[t].pc # "idle"
           /\ tasks[t].should_terminate) =>
              /\ tasks[t].pc = "returned"
              /\ tasks[t].code = 200
              /\ tasks[t].status = "success"
              /\ tasks[t].reply \in Goodbyes
    /\ \A i \in 1..Len(callbacks) :
          LET obj == callbacks[i].session
          IN  (\A t \in Tasks : ~(Running(t) /\ tasks[t].session = obj)) =>
                  /\ heap[obj].status = "TERMINATED"
                  /\ heap[obj].termination_reason \in Reasons
                  /\ \A id \in SessionIds : store[id] # obj
                  /\ CallbacksFor(obj) = 1

\* C8: a step in which a callback task ends changes nothing but that task
\* (and frees the session if nothing else refers to it): the store, the
\* request frames, and every session's status and reason are untouched and
\* no callback is added.
C8_CallbackStep ==
    (\E i \in 1..Len(callbacks) :
        callbacks[i].state = "scheduled" /\ callbacks'[i].state # "scheduled")
    => /\ UNCHANGED <<store, tasks, settings>>
       /\ Len(callbacks') = Len(callbacks)
       /\ \A obj \in DOMAIN heap :
             /\ heap'[obj].status = heap[obj].status
             /\ heap'[obj].termination_reason = heap[obj].termination_reason

\* C8: notification is isolated from the response path.
C8_NotificationIsolated == [](C8_Isolated) /\ [][C8_CallbackStep]_vars

C8_Witness ==
    \E t \in Tasks, i \in 1..Len(callbacks) :
        /\ tasks[t].pc = "returned"
        /\ tasks[t].should_terminate
        /\ tasks[t].status = "success"
        /\ callbacks[i].session = tasks[t].session
        /\ callbacks[i].state = "failed"

\* C9 (as claimed): a request during which the scam detector failed is not
\* aborted: every message request that has ended carries the success
\* response, and its session ends with the scammer message followed by the
\* agent reply (for as long as the Session object exists).
C9_FailureNotAborting ==
    \A t \in Tasks :
        (/\ IsMessageTask(t)
         /\ tasks[t].pc \in {"returned", "raised"}
         /\ ~heap[tasks[t].session].collected) =>
            LET messages == heap[tasks[t].session].messages
                n == Len(messages)
            IN  /\ tasks[t].code = 200
                /\ tasks[t].status = "success"
                /\ n >= 2
                /\ messages[n - 1] = [role |-> "scammer", content |-> tasks[t].message_text]
                /\ messages[n] = [role |-> "agent", content |-> tasks[t].reply]

\* the text C10 expects a handler of the primary endpoint to work on
ClaimedText(raw) == IF raw.text = "" THEN DefaultGreeting ELSE raw.text

\* C10 (as claimed): on the primary endpoint the text handed to the session,
\* the detector and the extractor is the default greeting when the message
\* carries no text or an empty one, and the supplied text otherwise.
C10_Normalised ==
    \A t \in Tasks :
        (tasks[t].ep = "honeypot" /\ tasks[t].pc # "idle") =>
            /\ tasks[t].message_text = ClaimedText(tasks[t].raw)
            /\ tasks[t].pc = "ingested" =>
                  LET messages == heap[tasks[t].session].messages
                  IN  messages[Len(messages)].content = ClaimedText(tasks[t].raw)

\* C11 (as claimed): at every call site of the generator the handler turns
\* an empty output into a non-empty reply (what it does with its reply is
\* FinalReply), and the reply it returns and the agent message it records
\* last in the session are not empty.
C11_ReplyNeverEmpty ==
    \A t \in Tasks :
        (IsMessageTask(t) /\ tasks[t].pc \in {"deleted", "replied", "returned"}) =>
            /\ FinalReply(tasks[t].ep, "") # ""
            /\ (tasks[t].pc = "returned" /\ ~heap[tasks[t].session].collected) =>
                  LET messages == heap[tasks[t].session].messages
                  IN  /\ tasks[t].reply # ""
                      /\ messages[Len(messages)].role = "agent"
                      /\ messages[Len(messages)].content # ""

\* C12: a step in which a ping is answered touches no session: the store,
\* every Session object, the callbacks and the frames of the other tasks
\* are the same before and after, and so is the active-session count.
C12_PingStep ==
    \A t \in Tasks :
        (tasks[t].pc = "idle" /\ tasks'[t].ep = "ping") =>
            /\ UNCHANGED <<store, heap, callbacks, settings>>
            /\ get_active_session_count(store') = get_active_session_count(store)
            /\ \A u \in Tasks \ {t} : tasks'[u] = tasks[u]
            /\ tasks'[t].session = NoSession

\* C12 (as claimed): every ping without a body, POST included, is answered
\* with the "active" acknowledgment.
C12_ActiveReply ==
    \A t \in Tasks :
        tasks[t].ep = "ping" =>
            /\ tasks[t].status = "success"
            /\ tasks[t].reply = "Honeypot API is active"

\* C12 (as claimed): the "active" acknowledgment for GET, HEAD and a POST
\* without a body, no session touched.
C12_PingActive == [](C12_ActiveReply) /\ [][C12_PingStep]_vars

\* C12 (amended): GET and HEAD are answered with "Honeypot API is active",
\* a POST without a body with the fixed greeting "Hello. How can I help
\* you?", both with status success.
C12_StaticReply ==
    \A t \in Tasks :
        tasks[t].ep = "ping" =>
            /\ tasks[t].pc = "returned"
            /\ tasks[t].status = "success"
            /\ tasks[t].code = 200
            /\ tasks[t].method \in {"GET", "HEAD"}
                  => tasks[t].reply = "Honeypot API is active"
            /\ tasks[t].method = "POST"
                  => tasks[t].reply = "Hello. How can I help you?"

\* C12 (amended): a fixed static reply per kind of ping, no session touched.
C12_PingStatic == [](C12_StaticReply) /\ [][C12_PingStep]_vars

C12_Witness ==
    \E t \in Tasks, id \in SessionIds :
        /\ tasks[t].ep = "ping"
        /\ tasks[t].method = "POST"
        /\ tasks[t].reply = "Hello. How can I help you?"
        /\ store[id] # NoSession
        /\ Expired(heap[store[id]], now)

\* the scammer messages recorded in a session's history
ScammerMessages(session) ==
    Cardinality({i \in 1..Len(session.messages) : session.messages[i].role = "scammer"})

\* C13: a staged reply is one generate_reply yields for the turn index equal
\* to the number of scammer messages the session received before the
\* current one; when that number is 0 the reply is of the initial-interest
\* set, and so is every reply generate_reply yields at turn index 0 for the
\* text of the request and any set of intents.
C13_FirstReplyInitial ==
    \A t \in Tasks :
        (IsMessageTask(t) /\ tasks[t].pc = "replied") =>
            LET session == heap[tasks[t].session]
                before == ScammerMessages(session) - 1
            IN  /\ before >= 0
                /\ tasks[t].reply \in
                      {generate_reply(tasks[t].message_text, session.scam_intents,
                                      before, rnd) : rnd \in RandomOutcomes}
                /\ before = 0 =>
                      /\ tasks[t].reply \in ListSet(INITIAL_RESPONSES)
                      /\ \A intents \in SUBSET Intents, rnd \in ProbeRandom :
                            generate_reply(tasks[t].message_text, intents, 0, rnd)
                                \in ListSet(INITIAL_RESPONSES)

\* the fifth message of a conversation is answered for turn index 4, with a
\* template of the second stage, after a first reply of the initial set to
\* a message the detector tagged FAKE_PRIZE
C13_Witness ==
    \E t \in Tasks :
        LET session == heap[tasks[t].session]
        IN  /\ tasks[t].pc = "replied"
            /\ ScammerMessages(session) = 5
            /\ session.message_count = 5
            /\ session.messages[1].content = T_UPI
            /\ "FAKE_PRIZE" \in session.scam_intents
            /\ session.messages[2].role = "agent"
            /\ session.messages[2].content \in ListSet(INITIAL_RESPONSES)
            /\ session.messages[4].content \in ListSet(PRIZE_RESPONSES)
            /\ tasks[t].reply \in ListSet(CAUTIOUS_RESPONSES)

\* the templates of the stages before, and after, the middle stages
EarlyTemplates ==
    ListSet(INITIAL_RESPONSES) \cup ListSet(CURIOUS_RESPONSES)
        \cup ListSet(PRIZE_RESPONSES) \cup ListSet(JOB_RESPONSES)

MidTemplates == ListSet(CAUTIOUS_RESPONSES) \cup ListSet(ENGAGEMENT_RESPONSES)

FinancialIntents == {"FINANCIAL_FRAUD", "UPI_SCAM", "FAKE_PRIZE"}

\* C14: a reply generate_reply returned for a turn index of 1 or more is of
\* a category the stage table allows: 1-3 prize if FAKE_PRIZE is among the
\* intents, else job if JOB_SCAM is, else curious; 4-8 cautious or engaged,
\* or financial-probe when a financial intent is present; 9-15 stalling or
\* financial-probe; 16 and later winding-down; a reply of one stage range
\* is of no category reserved to another range.
C14_StageTable ==
    (probe.fn = "generate_reply" /\ probe.pc = "done" /\ probe.message_count >= 1) =>
        LET k == probe.message_count
            intents == probe.scam_intents
            reply == probe.reply
        IN  /\ k \in 1..3 =>
                  /\ "FAKE_PRIZE" \in intents => reply \in ListSet(PRIZE_RESPONSES)
                  /\ ("JOB_SCAM" \in intents /\ "FAKE_PRIZE" \notin intents)
                        => reply \in ListSet(JOB_RESPONSES)
                  /\ intents \cap {"FAKE_PRIZE", "JOB_SCAM"} = {}
                        => reply \in ListSet(CURIOUS_RESPONSES)
                  /\ reply \in EarlyTemplates \ ListSet(INITIAL_RESPONSES)
            /\ k \in 4..8 =>
                  /\ reply \in MidTemplates \cup ListSet(FINANCIAL_RESPONSES)
                  /\ intents \cap FinancialIntents = {} => reply \in MidTemplates
                  /\ reply \notin EarlyTemplates \cup ListSet(STALLING_RESPONSES)
                                    \cup ListSet(WINDING_DOWN_RESPONSES)
            /\ k \in 9..15 =>
                  /\ reply \in ListSet(STALLING_RESPONSES) \cup ListSet(FINANCIAL_RESPONSES)
                  /\ reply \notin EarlyTemplates \cup MidTemplates
                                    \cup ListSet(WINDING_DOWN_RESPONSES)
            /\ k >= 16 =>
                  /\ reply \in ListSet(WINDING_DOWN_RESPONSES)
                  /\ reply \notin EarlyTemplates \cup MidTemplates
                                    \cup ListSet(STALLING_RESPONSES)
                                    \cup ListSet(FINANCIAL_RESPONSES)

C14_Witness ==
    /\ probe.fn = "generate_reply"
    /\ probe.pc = "done"
    /\ probe.message_count = 8
    /\ probe.scam_intents = {"UPI_SCAM"}
    /\ probe.rnd.lt60
    /\ probe.reply = FINANCIAL_RESPONSES[5]

\* a report with every field read as a set
AsSets(report) == [f \in IntelFields |-> ListSet(report[f])]

\* the list xs in the order given by the permutation perm of its indexes
Permuted(xs, perm) == [i \in 1..Len(xs) |-> xs[perm[i]]]

Permutations(n) ==
    {perm \in [1..n -> 1..n] : \A i, j \in 1..n : perm[i] = perm[j] => i = j}

\* C15: every result of merge_reports is, field by field, the union of the
\* reports' fields without duplicates, in whatever order: all-empty for no
\* report, the report itself (as sets) for one, the same (as sets) for
\* every order of the list and every grouping into nested merges, and
\* unchanged by an all-empty report added at either end.
C15_MergeIsUnion ==
    (probe.fn = "merge_reports" /\ probe.pc = "done") =>
        LET reports == probe.reports
            n == Len(reports)
            merged == AsSets(probe.merged)
            Same(results) == \A result \in results : AsSets(result) = merged
        IN  /\ \A f \in IntelFields :
                  /\ merged[f] = UNION {ListSet(reports[i][f]) : i \in 1..n}
                  /\ Len(probe.merged[f]) = Cardinality(merged[f])
            /\ n = 0 => probe.merged = EmptyListReport
            /\ n = 1 => merged = AsSets(reports[1])
            /\ \A perm \in Permutations(n) :
                  Same(merge_reports(Permuted(reports, perm)))
            /\ \A i \in 1..(n - 1) :
                  /\ \A left \in merge_reports(SubSeq(reports, 1, i)) :
                        Same(merge_reports(<<left>> \o SubSeq(reports, i + 1, n)))
                  /\ \A right \in merge_reports(SubSeq(reports, i + 1, n)) :
                        Same(merge_reports(SubSeq(reports, 1, i) \o <<right>>))
            /\ Same(merge_reports(Append(reports, EmptyListReport)))
            /\ Same(merge_reports(<<EmptyListReport>> \o reports))
            /\ Same(merge_reports(<<probe.merged, EmptyListReport>>))

C15_Witness ==
    /\ probe.fn = "merge_reports"
    /\ probe.pc = "done"
    /\ Len(probe.reports) = 3
    /\ probe.reports[1] # probe.reports[2]
    /\ probe.reports[3].upiIds = <<"merchant@ybl", "merchant@ybl">>
    /\ ListSet(probe.merged.upiIds) = {"merchant@ybl", "bob@gmail", "user@paytm"}
    /\ Len(probe.merged.upiIds) = 3
    /\ probe.merged.upiIds[1] = "user@paytm"
    /\ probe.merged.upiIds[3] = "bob@gmail"
    /\ ListSet(probe.merged.phoneNumbers) = {"9876543210", "9123456780"}

\* C16: in every session, and in every report a handler extracted, no
\* email address has a domain containing a payment-handle fragment, and no
\* string is both among the UPI ids and among the email addresses.
C16_UpiEmailExclusive ==
    /\ \A obj \in DOMAIN heap :
          LET intelligence == heap[obj].intelligence
          IN  /\ \A email \in intelligence.emailAddresses :
                    \A handle \in upi_handles : ~HandleInDomain(handle, Domain(email))
              /\ intelligence.upiIds \cap intelligence.emailAddresses = {}
    /\ \A t \in Tasks :
          /\ \A email \in tasks[t].intel.emailAddresses :
                \A handle \in upi_handles : ~HandleInDomain(handle, Domain(email))
          /\ tasks[t].intel.upiIds \cap tasks[t].intel.emailAddresses = {}

C16_Witness ==
    \E t \in Tasks :
        /\ tasks[t].pc = "extracted"
        /\ "user@paytm.com" \in ListSet(EMAIL_PATTERN(tasks[t].message_text))
        /\ heap[tasks[t].session].intelligence.emailAddresses = {"bob@gmail.com"}
        /\ "user@paytm" \in heap[tasks[t].session].intelligence.upiIds
        /\ "merchant@ybl" \in heap[tasks[t].session].intelligence.upiIds

\* the session ids whose current Session has received a message and has
\* been neither terminated nor removed by a sweep
LiveSessionIds ==
    {heap[obj].session_id : obj \in
        {o \in DOMAIN heap : /\ heap[o].status = "ACTIVE"
                             /\ ~heap[o].collected
                             /\ heap[o].message_count >= 1}}

\* C17: the count a health query reports is the number of session ids
\* whose current session has received at least one message and has been
\* neither terminated nor swept.
C17_HealthCount ==
    \A t \in Tasks :
        tasks[t].ep = "health" =>
            /\ tasks[t].pc = "returned"
            /\ tasks[t].status = "healthy"
            /\ tasks[t].active_sessions = Cardinality(LiveSessionIds)

C17_Witness ==
    \E t \in Tasks, obj1, obj2 \in DOMAIN heap :
        /\ tasks[t].ep = "health"
        /\ tasks[t].active_sessions = 1
        /\ heap[obj1].session_id # heap[obj2].session_id
        /\ heap[obj1].status = "TERMINATED"
        /\ heap[obj2].status = "ACTIVE"
        /\ store[heap[obj2].session_id] = obj2

\* the TTL of a session has elapsed at time t
TtlElapsed(session, t) == t - session.last_activity > session_timeout_seconds

\* C18: when the maintenance trigger has answered, no session in the store
\* has its TTL elapsed and the count reported is the size of the store.
C18_AfterSweep ==
    \A t \in Tasks :
        tasks[t].ep = "cleanup" =>
            /\ \A id \in SessionIds :
                  store[id] # NoSession => ~TtlElapsed(heap[store[id]], now)
            /\ tasks[t].active_sessions =
                  Cardinality({id \in SessionIds : store[id] # NoSession})
            /\ tasks[t].status = "success"

\* C18: the step of the maintenance trigger removes every session whose TTL
\* has elapsed, whatever its message count, and leaves every other session
\* registered with its state unchanged.
C18_SweepStep ==
    \A t \in Tasks :
        (tasks[t].pc = "idle" /\ tasks'[t].ep = "cleanup") =>
            \A id \in SessionIds :
                store[id] # NoSession =>
                    IF TtlElapsed(heap[store[id]], now)
                    THEN store'[id] = NoSession
                    ELSE /\ store'[id] = store[id]
                         /\ heap'[store[id]] = heap[store[id]]

\* C18: the store after the maintenance trigger.
C18_SweepRemovesExpired == [](C18_AfterSweep) /\ [][C18_SweepStep]_vars

C18_Witness ==
    \E t \in Tasks, swept \in DOMAIN heap, id \in SessionIds :
        /\ tasks[t].ep = "cleanup"
        /\ tasks[t].active_sessions = 1
        /\ heap[swept].collected
        /\ heap[swept].status = "ACTIVE"
        /\ heap[swept].session_id # id
        /\ store[id] # NoSession
        /\ heap[store[id]].message_count = 1

\* C19: at every request boundary (no handler in the middle of its body)
\* every session registered in the store is ACTIVE.
C19_StoredSessionsActive ==
    LoopFree =>
        \A id \in SessionIds :
            store[id] # NoSession =>
                /\ heap[store[id]].status = "ACTIVE"
                /\ heap[store[id]].termination_reason = "NONE"
                /\ heap[store[id]].session_id = id

C19_Witness ==
    \E t \in Tasks, id \in SessionIds :
        /\ tasks[t].pc = "returned"
        /\ tasks[t].should_terminate
        /\ heap[tasks[t].session].status = "TERMINATED"
        /\ store[tasks[t].sessionId] = NoSession
        /\ store[id] # NoSession
        /\ heap[store[id]].status = "ACTIVE"

\* a request the two message handlers both accept: a non-empty string
SharedInput(t) ==
    /\ IsMessageTask(t)
    /\ tasks[t].raw.kind = "str"
    /\ tasks[t].raw.text # ""

\* C20: for a non-empty string message the text either handler works on is
\* the one the other handler would work on, namely the string itself.
C20_SameText ==
    \A t \in Tasks :
        SharedInput(t) =>
            \A ep \in Endpoints :
                /\ InboundText(ep, tasks[t].raw) = tasks[t].message_text
                /\ tasks[t].message_text = tasks[t].raw.text

\* C20: the step in which a handler records and returns its reply has the
\* effect it would have in the other handler: the reply returned and the
\* agent message recorded are what either endpoint makes of the generated
\* reply, and the store and the callbacks are left as they are.
C20_SameReplyStep ==
    \A t \in Tasks :
        (/\ SharedInput(t)
         /\ tasks[t].pc \in {"deleted", "replied"}
         /\ tasks'[t].pc = "returned") =>
            \A ep \in Endpoints :
                /\ tasks'[t].reply = FinalReply(ep, tasks[t].reply)
                /\ heap'[tasks[t].session] =
                      add_message(heap[tasks[t].session], "agent",
                                  FinalReply(ep, tasks[t].reply), now)
                /\ tasks'[t].code = 200
                /\ UNCHANGED <<store, callbacks, settings>>

\* C20: the primary and the legacy handler have the same effect on the
\* session and the store for non-empty string messages.
C20_HandlersEquivalent == [](C20_SameText) /\ [][C20_SameReplyStep]_vars

C20_Witness ==
    \E t \in Tasks, i \in 1..Len(callbacks) :
        /\ SharedInput(t)
        /\ tasks[t].ep = "v1"
        /\ tasks[t].pc = "returned"
        /\ tasks[t].should_terminate
        /\ callbacks[i].session = tasks[t].session
        /\ store[tasks[t].sessionId] = NoSession
        /\ Len(heap[tasks[t].session].messages) = 2 * settings.max_messages_per_session
        /\ heap[tasks[t].session].messages[Len(heap[tasks[t].session].messages)].content
              = tasks[t].reply

====
